---- MODULE Spec2Model ----
(***************************************************************************)
(* Model of the expense tracker's reporting synchronisation                *)
(* (database/init_db.py: update_reporting_db) together with the command    *)
(* layer operations that write the source table `expenses`                 *)
(* (src/commands/expense_handler.py, src/commands/commands.py).            *)
(*                                                                         *)
(* Timestamps are 'YYYY-MM-DD HH:MM:SS' strings of one-second resolution;  *)
(* the model counts seconds as integers, 0 being '1970-01-01 00:00:00'.    *)
(* The source database stamps rows with SQLite's CURRENT_TIMESTAMP (UTC),  *)
(* the engine stamps the watermark with datetime.now() (local wall clock). *)
(***************************************************************************)
EXTENDS Integers, Sequences, FiniteSets

\* ------------------------------------------------------------------ bounds
MaxTime == 1        \* seconds the clock advances after the first reading
MaxExpenses == 1    \* expense ids handed out by AUTOINCREMENT
MaxUsers == 3       \* user ids handed out by AUTOINCREMENT
MaxLine == 5        \* pieces of an input line
MaxRows == 2        \* data rows of a CSV file

\* --------------------------------------------------------------- constants
EpochTime == 0      \* '1970-01-01 00:00:00', the initial watermark
StartTime == EpochTime + 2   \* first clock reading (UTC): later than the epoch

TZOffsets == {-1, 0, 1}   \* local wall clock minus UTC, fixed per machine
Amounts == {10, 20}       \* values of the amount argument

None == [user_id |-> 0, username |-> "", is_admin |-> FALSE]

\* users(user_id, username, is_admin, ...)
users ==
  { [user_id |-> 1, username |-> "admin", is_admin |-> TRUE],
    [user_id |-> 2, username |-> "bob", is_admin |-> FALSE] }

\* categories(category_id, category_name, ...)
categories == { [category_id |-> 1, category_name |-> "food"] }

\* payment_methods(payment_method_id, name, ...)
payment_methods == { [payment_method_id |-> 1, name |-> "cash"] }

\* ------------------------------------------------------------- the parser
\* Parser.commands: the valid commands and their argument counts; `bounded`
\* is FALSE where 'max' is None.
commands ==
  [ help                 |-> [min |-> 0, bounded |-> TRUE,  max |-> 0],
    login                |-> [min |-> 2, bounded |-> TRUE,  max |-> 2],
    logout               |-> [min |-> 0, bounded |-> TRUE,  max |-> 0],
    list_users           |-> [min |-> 0, bounded |-> TRUE,  max |-> 0],
    add_user             |-> [min |-> 3, bounded |-> TRUE,  max |-> 3],
    add_category         |-> [min |-> 1, bounded |-> TRUE,  max |-> 1],
    list_categories      |-> [min |-> 0, bounded |-> TRUE,  max |-> 0],
    add_payment_method   |-> [min |-> 1, bounded |-> TRUE,  max |-> 1],
    list_payment_methods |-> [min |-> 0, bounded |-> TRUE,  max |-> 0],
    add_expense          |-> [min |-> 5, bounded |-> TRUE,  max |-> 6],
    update_expense       |-> [min |-> 3, bounded |-> TRUE,  max |-> 3],
    delete_expense       |-> [min |-> 1, bounded |-> TRUE,  max |-> 1],
    list_expenses        |-> [min |-> 0, bounded |-> FALSE, max |-> 0],
    import_expenses      |-> [min |-> 1, bounded |-> TRUE,  max |-> 1],
    export_csv           |-> [min |-> 3, bounded |-> TRUE,  max |-> 3],
    report               |-> [min |-> 1, bounded |-> FALSE, max |-> 0] ]

\* Parser.parse on a line whose first token is `command`, followed by
\* num_args arguments: the command, or the ParserError it raises.
parse(command, num_args) ==
  IF command \notin DOMAIN commands THEN "Invalid command"
  ELSE IF num_args < commands[command].min THEN "Not enough arguments"
  ELSE IF commands[command].bounded /\ num_args > commands[command].max
       THEN "Too many arguments"
  ELSE command

\* An input line is a list of pieces: words, blanks and double quotes.  No
\* two words put together, and no word with a blank, spell a command.
Space == " "
Quote == "\""
Words == {"delete_expense", "Report", "x"}
Atoms == Words \cup {Space, Quote}
Lines == UNION { [1..n -> Atoms] : n \in 0..MaxLine }

\* str.strip(): the line without leading and trailing blanks.
strip(input_str) ==
  LET text == { i \in DOMAIN input_str : input_str[i] # Space }
  IN IF text = {} THEN << >>
     ELSE SubSeq(input_str, CHOOSE i \in text : \A j \in text : i <= j,
                            CHOOSE i \in text : \A j \in text : i >= j)

\* shlex's scanner from position i on: `tokens` are finished, `token` is the
\* one being read (`started`: it exists, possibly empty), `quoted`: inside
\* double quotes.  A blank outside quotes ends a token, a quote opens or
\* closes and is dropped, the end of the line inside quotes raises
\* ValueError("No closing quotation").
RECURSIVE read_token(_, _, _, _, _, _)
read_token(s, i, tokens, token, started, quoted) ==
  IF i > Len(s)
  THEN IF quoted THEN [ok |-> FALSE, tokens |-> << >>]
       ELSE [ok |-> TRUE, tokens |-> IF started THEN Append(tokens, token) ELSE tokens]
  ELSE IF quoted
       THEN IF s[i] = Quote
            THEN read_token(s, i + 1, tokens, token, TRUE, FALSE)
            ELSE read_token(s, i + 1, tokens, Append(token, s[i]), TRUE, TRUE)
  ELSE IF s[i] = Quote THEN read_token(s, i + 1, tokens, token, TRUE, TRUE)
  ELSE IF s[i] = Space
       THEN IF started
            THEN read_token(s, i + 1, Append(tokens, token), << >>, FALSE, FALSE)
            ELSE read_token(s, i + 1, tokens, token, FALSE, FALSE)
  ELSE read_token(s, i + 1, tokens, Append(token, s[i]), TRUE, FALSE)

\* shlex.split(s)
shlex_split(s) == read_token(s, 1, << >>, << >>, FALSE, FALSE)

\* The text of a token: a single word is that word, anything else (the
\* empty token, words run together, a quoted blank) is no command's name.
OtherText == "?"
Text(token) == IF Len(token) = 1 /\ token[1] \in Words THEN token[1] ELSE OtherText

\* str.lower()
lower(text) == IF text = "Report" THEN "report" ELSE text

NoClosingQuotationMsg == "No closing quotation"
NoCommandMsg == "No command entered."

ParseResult(raised, message, command, args) ==
  [raised |-> raised, message |-> message, command |-> command, args |-> args]

NotParsed == ParseResult("", "", "", << >>)

\* Parser.parse(input_str): (command, args), or the exception raised.
ParseInput(input_str) ==
  LET split == shlex_split(strip(input_str))
  IN IF ~ split.ok THEN ParseResult("ValueError", NoClosingQuotationMsg, "", << >>)
     ELSE IF split.tokens = << >> THEN ParseResult("ParserError", NoCommandMsg, "", << >>)
     ELSE LET command == lower(Text(Head(split.tokens)))
              args == Tail(split.tokens)
          IN IF parse(command, Len(args)) # command
             THEN ParseResult("ParserError", parse(command, Len(args)), "", << >>)
             ELSE ParseResult("", "", command, args)

\* The lines typed at the prompt: first tokens and argument counts.
InputCommands == {"delete_expense", "update_expense", "frobnicate"}
InputArgs == {1, 3}

\* Commands main() handles itself, before the login gate.
UngatedCommands == {"help", "login", "logout", "exit", "quit"}

\* What the loop made of one input line: the command typed, the entry of
\* command_map that was called ("none": no handler), the lines printed.
\* `args` holds the expense id the answer is about, where it matters.
ReplyTo(command, handler, lines, args) ==
  [command |-> command, handler |-> handler, lines |-> lines, args |-> args]

Reply(command, handler, lines) == ReplyTo(command, handler, lines, << >>)

Welcome == Reply("", "none", << "Welcome to the Expense Sharing App!" >>)
LoginRequiredMsg == "You must be logged in to execute this command."
ParserErrorMsg == "Parser Error"
CommandErrorMsg == "Command Error"
UnexpectedErrorMsg == "Unexpected Error"
UnknownCommandMsg == "Unknown command"
ExitMsg == "Exiting the application. Goodbye!"
SyncDoneMsg == "Reporting database updated successfully"
SyncFailedMsg == "Falied to save reporting_database"

VARIABLES
  concurrent,             \* whether another process issues commands during a run
  now,                    \* UTC time in seconds (CURRENT_TIMESTAMP)
  tz,                     \* local wall clock minus UTC
  current_user,           \* ExpenseAuthIntegration.current_user (None: nobody)
  expenses,               \* rows of the source table expenses
  next_expense_id,        \* AUTOINCREMENT sequence of expenses
  denormalized_expenses,  \* committed rows of the reporting table
  sync_metadata,          \* committed sync_metadata.last_sync_time (row id 1)
  pc,                     \* position of update_reporting_db()
  last_sync_time,         \* its local: the watermark read at the start
  current_time,           \* its local: the clock reading to be written
  updated_expenses,       \* its local: the fetched changed set (a list)
  idx,                    \* its local: position of the for loop in the list
  tx,                     \* reporting connection's open transaction
  out,                    \* the last input line of main()'s loop and what it printed
  other,                  \* update_reporting_db() of a second process (overlapping runs)
  pre,                    \* history: committed reporting state at run start
  succ,                   \* history: how the run in progress relates to the one before
  clean,                  \* history: outcome of the last run, until the source changes
  users_table,            \* rows of the table users, password_hash included
  next_user_id,           \* AUTOINCREMENT sequence of users
  last_set,               \* per username, the password last stored for it
  verified,               \* the last verify_user call and what it returned
  user_input,             \* the line read at the prompt
  parsed,                 \* what Parser.parse made of it
  categories_user_id,     \* whether the table categories has a column user_id
  imp                     \* ExpenseCSVImporter.import_expenses_csv: its position,
                          \* its file, its locals and its open transaction

vars == << concurrent, now, tz, current_user, expenses, next_expense_id,
           denormalized_expenses, sync_metadata, pc, last_sync_time,
           current_time, updated_expenses, idx, tx, out, other,
           pre, succ, clean, users_table, next_user_id, last_set, verified,
           user_input, parsed, categories_user_id, imp >>

srcVars == << expenses, next_expense_id >>
runVars == << pc, last_sync_time, current_time, updated_expenses, idx, tx >>
histVars == << pre, succ, clean >>
repVars == << denormalized_expenses, sync_metadata >>
authVars == << users_table, next_user_id, last_set, verified >>
inputVars == << user_input, parsed >>
importVars == << categories_user_id, imp >>

ExpenseIds == 1..MaxExpenses

\* ------------------------------------------------------------ the clocks
\* SQLite's CURRENT_TIMESTAMP: UTC, to the second.
CurrentTimestamp == now

\* datetime.datetime.now().strftime("%Y-%m-%d %H:%M:%S"): local wall clock.
LocalNow == now + tz


\* ------------------------------------------------------- the source rows
\* A row of expenses as INSERTed by add_expense: is_deleted, created_at and
\* updated_at take their column defaults (0, CURRENT_TIMESTAMP, CURRENT_TIMESTAMP).
NewExpense(id, uid, cid, pmid, amount, date, description, tag) ==
  [ expense_id |-> id, user_id |-> uid, category_id |-> cid,
    payment_method_id |-> pmid, amount |-> amount, expense_date |-> date,
    description |-> description, tag |-> tag, is_deleted |-> 0,
    created_at |-> CurrentTimestamp, updated_at |-> CurrentTimestamp ]

\* SELECT ... FROM expenses WHERE expense_id = ?
ExpenseById(id) == { e \in expenses : e.expense_id = id }

\* SELECT user_id FROM expenses WHERE expense_id = ? AND is_deleted = 0
LiveExpenseById(id) == { e \in ExpenseById(id) : e.is_deleted = 0 }

\* ------------------------------------------------- the reporting queries
\* One row of the changed-set SELECT: the expense with the joined names.
Denormalize(e, u, c, pm) ==
  [ expense_id |-> e.expense_id, username |-> u.username,
    category_name |-> c.category_name, payment_method_name |-> pm.name,
    amount |-> e.amount, expense_date |-> e.expense_date,
    description |-> e.description, tag |-> e.tag,
    created_at |-> e.created_at, updated_at |-> e.updated_at ]

\* expenses e JOIN users u ON ... JOIN categories c ON ... JOIN payment_methods
\* pm ON ...: an inner join, empty for an expense one of whose ids has no row.
JoinExpense(e) ==
  { Denormalize(e, j[1], j[2], j[3]) :
      j \in { q \in users \X categories \X payment_methods :
                /\ e.user_id = q[1].user_id
                /\ e.category_id = q[2].category_id
                /\ e.payment_method_id = q[3].payment_method_id } }

\* The changed-set SELECT: the join WHERE e.updated_at > ? AND e.is_deleted = 0.
ChangedSet(since) ==
  UNION { JoinExpense(e) :
            e \in { x \in expenses : x.updated_at > since /\ x.is_deleted = 0 } }

\* fetchall(): the rows as a list, in rowid order of expenses.
RECURSIVE FetchAll(_)
FetchAll(rows) ==
  IF rows = {} THEN << >>
  ELSE LET first == CHOOSE r \in rows :
                      \A o \in rows : r.expense_id <= o.expense_id
       IN << first >> \o FetchAll(rows \ {first})

\* SELECT expense_id FROM expenses WHERE updated_at > ? AND is_deleted = 1
DeletedIdsSince(since) ==
  { e.expense_id : e \in { x \in expenses : x.updated_at > since /\ x.is_deleted = 1 } }

\* The parameter bound to the deleted-set SELECT: (last_sync_time,); the faulty
\* variant binds current_time.
DeletedSetBound_WrongVar(lst, cur) == cur
DeletedSetBound(lst, cur) == lst

\* SELECT COUNT(*) FROM denormalized_expenses WHERE expense_id = ?
CountRows(rows, id) == Cardinality({ r \in rows : r.expense_id = id })

\* UPDATE denormalized_expenses SET <every column> WHERE expense_id = ?
\* (the faulty variant binds username and category_name in each other's place)
UpdateRow_SwappedParams(rows, r) ==
  { IF x.expense_id = r.expense_id
      THEN [r EXCEPT !.username = r.category_name, !.category_name = r.username]
      ELSE x : x \in rows }
UpdateRow(rows, r) ==
  { IF x.expense_id = r.expense_id THEN r ELSE x : x \in rows }

\* INSERT INTO denormalized_expenses (...) VALUES (...); reached only when no
\* row has the id, so the PRIMARY KEY of the table is never what keeps ids unique.
InsertRow(rows, r) == rows \cup {r}

\* The body of the for loop: update the existing row or insert a new one.
Upsert(rows, r) ==
  IF CountRows(rows, r.expense_id) > 0 THEN UpdateRow(rows, r) ELSE InsertRow(rows, r)

\* DELETE FROM denormalized_expenses WHERE expense_id IN (...)
DeleteRows(rows, ids) == { r \in rows : r.expense_id \notin ids }


\* ---------------------------------------------------------------- Init
\* The state after init_db() and init_reporting_db(): empty tables, the
\* ------------------------------------------------------- the CSV files
\* ExpenseCSVImporter.expected_columns
RequiredColumns == {"category_name", "payment_method_name", "amount", "tag"}
OptionalColumns == {"expense_date", "description"}

\* Header rows: the required columns; one of them missing; one unknown.
Headers ==
  { << "category_name", "payment_method_name", "amount", "tag" >>,
    << "category_name", "amount", "tag" >>,
    << "category_name", "payment_method_name", "amount", "tag", "notes" >> }

\* A data row under the four-column header: its values (NoValue: the field
\* is not there), the number of fields csv.reader finds, and whether the
\* csv module can read the line at all (a field over its size limit, or
\* bytes that are not UTF-8, make the reader raise).
NoValue == ""
CsvRow(category_name, payment_method_name, amount, tag, fields, readable) ==
  [ category_name |-> category_name, payment_method_name |-> payment_method_name,
    amount |-> amount, tag |-> tag, fields |-> fields, readable |-> readable ]

GoodRow == CsvRow("food", "cash", "10", "t", 4, TRUE)
NewNamesRow == CsvRow("rent", "card", "20", "t", 4, TRUE)
BadAmountRow == CsvRow("rent", "cash", "abc", "t", 4, TRUE)
BlankRow == CsvRow("", "", "", "", 4, TRUE)
ShortRow == CsvRow("food", "cash", "10", NoValue, 3, TRUE)
EmptyLine == CsvRow(NoValue, NoValue, NoValue, NoValue, 0, TRUE)
UnreadableRow == CsvRow(NoValue, NoValue, NoValue, NoValue, 0, FALSE)

CsvRows ==
  { GoodRow, NewNamesRow, BadAmountRow, BlankRow, ShortRow, EmptyLine, UnreadableRow }

CsvFiles == UNION { [1..n -> CsvRows] : n \in 0..MaxRows }

\* float(text): the number, for a text that is one.
IsNumber(text) == text \in {"10", "20"}
float(text) == IF text = "10" THEN 10 ELSE 20

\* csv.DictReader passes over a line without fields; the loop passes over
\* a row none of whose values is truthy.
IsEmptyRow(row) ==
  \/ row.fields = 0
  \/ \A v \in {row.category_name, row.payment_method_name, row.amount, row.tag} : v = ""

\* ExpenseCSVImporter.validate_csv_structure: the header has every required
\* column and no unknown one, and a first data row follows that csv.reader
\* can read and that has as many fields as the header.
validate_csv_structure(header, rows) ==
  LET columns == { header[i] : i \in DOMAIN header }
  IN /\ RequiredColumns \subseteq columns
     /\ columns \subseteq RequiredColumns \cup OptionalColumns
     /\ rows # << >>
     /\ rows[1].readable
     /\ rows[1].fields = Len(header)

\* The table categories where it has the column user_id: the rows belong
\* to the admin.
CategoryRows ==
  { [ category_id |-> c.category_id, category_name |-> c.category_name,
      user_id |-> (CHOOSE u \in users : u.is_admin).user_id ] : c \in categories }

\* The outcome of a statement or a conversion inside the loop.
Raised(txn) == [txn EXCEPT !.rows_failed = @ + 1]

\* ExpenseCSVImporter.get_category_id in the open transaction txn: the id of
\* the user's category of that name; failing that the INSERT of a new one,
\* which UNIQUE(category_name) refuses when another user has the name.
\* Both statements name user_id and raise where the table lacks the column.
\* The result is the transaction and the id; id 0: the statement raised.
get_category_id(txn, has_user_id, category_name) ==
  LET own == { c \in txn.cats : c.category_name = category_name /\ c.user_id = txn.user }
      lastrowid == Cardinality(txn.cats) + 1
  IN IF ~ has_user_id THEN [tx |-> txn, id |-> 0]
     ELSE IF own # {} THEN [tx |-> txn, id |-> (CHOOSE c \in own : TRUE).category_id]
     ELSE IF \E c \in txn.cats : c.category_name = category_name THEN [tx |-> txn, id |-> 0]
     ELSE [ tx |-> [txn EXCEPT !.cats = @ \cup { [ category_id |-> lastrowid,
                                                   category_name |-> category_name,
                                                   user_id |-> txn.user ] }],
            id |-> lastrowid ]

\* ExpenseCSVImporter.get_payment_method_id: the id of the payment method
\* of that name, or of the one it inserts.
get_payment_method_id(txn, payment_method_name) ==
  LET found == { m \in txn.pms : m.name = payment_method_name }
      lastrowid == Cardinality(txn.pms) + 1
  IN IF found # {} THEN [tx |-> txn, id |-> (CHOOSE m \in found : TRUE).payment_method_id]
     ELSE [ tx |-> [txn EXCEPT !.pms = @ \cup { [ payment_method_id |-> lastrowid,
                                                  name |-> payment_method_name ] }],
            id |-> lastrowid ]

\* ------------------------------------------------------ the credentials
\* UserAuth.encode: RSA-OAEP under the public key, base64.  The padding is
\* drawn afresh at every call, and a message over 190 bytes (2048-bit key,
\* SHA-256) makes encrypt() raise ValueError.
Pads == {1, 2}
LongPassword == "a password of more than 190 bytes"
Passwords == {"pw1", "pw2", LongPassword}
TooLong(password) == password = LongPassword

encode(message, pad) == [plain |-> message, pad |-> pad]

\* UserAuth.decode: the private key gives the message back.
decode(encrypted_message) == encrypted_message.plain

Usernames == { u.username : u \in users } \cup {"carol"}
NoPassword == ""
NoVerify == [username |-> "", password |-> NoPassword, data |-> None]

\* The table users once every row of `users` has been registered with
\* register_user(username, "pw1", is_admin).
RegisteredUsers ==
  { [ user_id |-> u.user_id, username |-> u.username,
      password_hash |-> encode("pw1", 1), is_admin |-> u.is_admin,
      is_deleted |-> 0 ] : u \in users }

\* Faulty variant: the SELECT does not look at is_deleted.
verify_user_AnyRow(table, username, password) ==
  LET user_data == { r \in table : r.username = username }
  IN IF user_data = {} THEN None
     ELSE LET r == CHOOSE r \in user_data : TRUE
          IN IF password = decode(r.password_hash)
             THEN [user_id |-> r.user_id, username |-> r.username, is_admin |-> r.is_admin]
             ELSE None

\* UserAuthentication.verify_user: SELECT ... WHERE username = ? AND
\* is_deleted = 0, then the stored hash decrypted and compared.
verify_user(table, username, password) ==
  LET user_data == { r \in table : r.username = username /\ r.is_deleted = 0 }
  IN IF user_data = {} THEN None
     ELSE LET r == CHOOSE r \in user_data : TRUE
          IN IF password = decode(r.password_hash)
             THEN [user_id |-> r.user_id, username |-> r.username, is_admin |-> r.is_admin]
             ELSE None

\* watermark row (1, '1970-01-01 00:00:00'), nobody logged in.
NoTx == [rows |-> {}, wm |-> EpochTime]

\* The second process is at its prompt: no run of its own in progress.
NoOther ==
  [pc |-> "Idle", last_sync_time |-> EpochTime, current_time |-> EpochTime,
   updated_expenses |-> << >>]

InstalledStores ==
  /\ now = StartTime
  /\ tz \in TZOffsets
  /\ current_user = None
  /\ expenses = {}
  /\ next_expense_id = 1
  /\ denormalized_expenses = {}
  /\ sync_metadata = EpochTime
  /\ pc = "Idle"
  /\ last_sync_time = EpochTime
  /\ current_time = EpochTime
  /\ updated_expenses = << >>
  /\ idx = 1
  /\ tx = NoTx
  /\ out = Welcome
  /\ other = NoOther
  /\ pre = NoTx
  /\ succ = "none"
  /\ clean = "none"
  /\ users_table = RegisteredUsers
  /\ next_user_id = Cardinality(users) + 1
  /\ last_set = [ n \in Usernames |->
                    IF \E u \in users : u.username = n THEN "pw1" ELSE NoPassword ]
  /\ verified = NoVerify

\* No import has started.
NoImport ==
  [ pc |-> "idle", user |-> None.user_id, header |-> << >>, rows |-> << >>, idx |-> 1,
    cats |-> CategoryRows, pms |-> payment_methods, pending |-> {},
    rows_inserted |-> 0, rows_failed |-> 0, result |-> FALSE ]

\* No line has been read yet; the schema is the one init_db() declares, where
\* categories names user_id in a FOREIGN KEY clause only.
Installed ==
  /\ InstalledStores
  /\ user_input = << >>
  /\ parsed = NotParsed
  /\ categories_user_id = FALSE
  /\ imp = NoImport

\* One process at a time: commands are issued only while no run is in progress.
Init == Installed /\ concurrent = FALSE

\* Commands of another process may interleave with the steps of a run.
InitConc == Installed /\ concurrent = TRUE

\* ------------------------------------------------------------- the clock
\* A second passes.
Tick ==
  /\ now < StartTime + MaxTime
  /\ now' = now + 1
  /\ UNCHANGED << concurrent, authVars, inputVars, importVars, other, out, tz, current_user, srcVars, repVars, runVars, histVars >>

\* ----------------------------------------------------------- the session
\* The command loop of main() reads a command. The process that runs
\* update_reporting_db() has left its loop; with `concurrent`, another process
\* is at its prompt meanwhile (the instant of the commit itself excepted:
\* Finish touches nothing a command reads or writes).
AtPrompt == pc = "Idle" \/ (concurrent /\ pc # "Committed")

\* ExpenseAuthIntegration.login with credentials verify_user accepts.
Login ==
  /\ AtPrompt
  /\ \E u \in users :
       /\ current_user' = u
       /\ out' = Reply("login", "none", << "Welcome back", u.username >>)
  /\ UNCHANGED << concurrent, authVars, inputVars, importVars, other, now, tz, srcVars, repVars, runVars, histVars >>

\* ExpenseAuthIntegration.logout with a user logged in.
Logout ==
  /\ AtPrompt
  /\ current_user # None
  /\ current_user' = None
  /\ out' = Reply("logout", "none", << "Goodbye", current_user.username >>)
  /\ UNCHANGED << concurrent, authVars, inputVars, importVars, other, now, tz, srcVars, repVars, runVars, histVars >>

\* A line is waiting at the prompt, somebody or nobody logged in.
InitParser ==
  /\ InstalledStores
  /\ concurrent = FALSE
  /\ user_input \in Lines
  /\ parsed = NotParsed
  /\ categories_user_id = FALSE
  /\ imp = NoImport

\* main(): parser.parse(user_input); a ParserError is printed as 'Parser
\* Error', a ValueError as 'Command Error', and the loop goes on to the next
\* line; a parsed command goes on to the dispatch.
ParseLine ==
  /\ AtPrompt
  /\ parsed = NotParsed
  /\ parsed' = ParseInput(user_input)
  /\ out' = IF parsed'.raised = "ParserError"
            THEN Reply("", "none", << ParserErrorMsg, parsed'.message >>)
            ELSE IF parsed'.raised = "ValueError"
            THEN Reply("", "none", << CommandErrorMsg, parsed'.message >>)
            ELSE out
  /\ UNCHANGED << concurrent, authVars, importVars, user_input, other, now, tz,
                  current_user, srcVars, repVars, runVars, histVars >>

\* main(): parser.parse raises ParserError, caught by the loop, which prints
\* it and reads the next line; nothing else happens.
Rejected ==
  /\ AtPrompt
  /\ \E command \in InputCommands, num_args \in InputArgs :
       /\ parse(command, num_args) # command
       /\ out' = Reply(command, "none", << ParserErrorMsg, parse(command, num_args) >>)
  /\ UNCHANGED << concurrent, authVars, inputVars, importVars, other, now, tz, current_user, srcVars, repVars, runVars,
                  histVars >>

\* Faulty variant: the command is handed to its handler all the same.
LoginRequired_Dispatches ==
  /\ AtPrompt
  /\ current_user = None
  /\ \E command \in InputCommands, num_args \in InputArgs :
       /\ parse(command, num_args) = command
       /\ command \notin UngatedCommands
       /\ out' = Reply(command, command, << LoginRequiredMsg >>)
  /\ UNCHANGED << concurrent, authVars, inputVars, importVars, other, now, tz, current_user, srcVars, repVars, runVars,
                  histVars >>

\* main(): a parsed command other than help, login and logout while
\* auth.get_current_user() is None: the message, and the next line is read.
LoginRequired ==
  /\ AtPrompt
  /\ current_user = None
  /\ \E command \in InputCommands, num_args \in InputArgs :
       /\ parse(command, num_args) = command
       /\ command \notin UngatedCommands
       /\ out' = Reply(command, "none", << LoginRequiredMsg >>)
  /\ UNCHANGED << concurrent, authVars, inputVars, importVars, other, now, tz, current_user, srcVars, repVars, runVars,
                  histVars >>

\* ----------------------------------------------------- the command layer
\* Every write to the source ends the "source unchanged" history.
SourceWritten ==
  /\ clean' = "none"
  /\ UNCHANGED << pre, succ >>

\* ExpenseManager.add_expense: a logged-in user, an existing category and
\* payment method; the new row takes the column defaults.
AddExpense ==
  /\ AtPrompt
  /\ current_user # None
  /\ next_expense_id <= MaxExpenses
  /\ \E amount \in Amounts, c \in categories, pm \in payment_methods :
       expenses' = expenses \cup
         { NewExpense(next_expense_id, current_user.user_id, c.category_id,
                      pm.payment_method_id, amount, 1, "lunch", "t") }
  /\ next_expense_id' = next_expense_id + 1
  /\ out' = Reply("add_expense", "add_expense", << "Expense added successfully." >>)
  /\ SourceWritten
  /\ UNCHANGED << concurrent, authVars, inputVars, importVars, other, now, tz, current_user, repVars, runVars >>

\* UPDATE expenses SET {field} = ? WHERE expense_id = ?: the column named by
\* the caller is set and no other column, updated_at included, is touched.
SetField(e, field, new_value) ==
  IF field = "amount" THEN [e EXCEPT !.amount = new_value]
  ELSE IF field = "category_id" THEN [e EXCEPT !.category_id = new_value]
  ELSE e

\* new_value is not validated: a category_id with no row in categories.
NoCategory == Cardinality(categories) + 1

FieldValues(field) ==
  IF field = "amount" THEN Amounts ELSE { c.category_id : c \in categories } \cup {NoCategory}

UpdateStatement(expense_id, field, new_value) ==
  expenses' = { IF e.expense_id = expense_id THEN SetField(e, field, new_value) ELSE e :
                  e \in expenses }

\* ExpenseManager.update_expense: refused unless the expense is live, owned by
\* the logged-in user, and that user is an admin.
UpdateExpense ==
  /\ AtPrompt
  /\ current_user # None
  /\ \E expense_id \in ExpenseIds, field \in {"amount", "category_id"} :
       /\ \E owner \in LiveExpenseById(expense_id) :
            ~ (owner.user_id # current_user.user_id \/ ~ current_user.is_admin)
       /\ \E new_value \in FieldValues(field) :
            UpdateStatement(expense_id, field, new_value)
  /\ out' = Reply("update_expense", "update_expense", << "Expense updated successfully." >>)
  /\ SourceWritten
  /\ UNCHANGED << concurrent, authVars, inputVars, importVars, other, now, tz, current_user, next_expense_id, repVars, runVars >>

\* CommandHandler.handle_update_expense behind the login gate of main():
\* the UPDATE is issued for whatever row has the id.
HandleUpdateExpense ==
  /\ AtPrompt
  /\ current_user # None
  /\ \E expense_id \in ExpenseIds, field \in {"amount", "category_id"} :
       /\ ExpenseById(expense_id) # {}
       /\ \E new_value \in FieldValues(field) :
            UpdateStatement(expense_id, field, new_value)
  /\ out' = Reply("update_expense", "update_expense", << "Expense updated successfully." >>)
  /\ SourceWritten
  /\ UNCHANGED << concurrent, authVars, inputVars, importVars, other, now, tz, current_user, next_expense_id, repVars, runVars >>

\* ExpenseManager.delete_expense: UPDATE expenses SET is_deleted = 1; same
\* guard as update_expense; updated_at is not touched.
DeleteExpense ==
  /\ AtPrompt
  /\ current_user # None
  /\ \E expense_id \in ExpenseIds :
       /\ \E owner \in LiveExpenseById(expense_id) :
            ~ (owner.user_id # current_user.user_id \/ ~ current_user.is_admin)
       /\ expenses' = { IF e.expense_id = expense_id THEN [e EXCEPT !.is_deleted = 1] ELSE e :
                          e \in expenses }
  /\ out' = Reply("delete_expense", "delete_expense", << "Expense deleted successfully." >>)
  /\ SourceWritten
  /\ UNCHANGED << concurrent, authVars, inputVars, importVars, other, now, tz, current_user, next_expense_id, repVars, runVars >>

\* CommandHandler.handle_delete_expense behind the login gate of main():
\* DELETE FROM expenses WHERE expense_id = ?
HandleDeleteExpense ==
  /\ AtPrompt
  /\ current_user # None
  /\ \E expense_id \in ExpenseIds :
       /\ ExpenseById(expense_id) # {}
       /\ expenses' = { e \in expenses : e.expense_id # expense_id }
  /\ out' = Reply("delete_expense", "delete_expense", << "Expense deleted successfully." >>)
  /\ SourceWritten
  /\ UNCHANGED << concurrent, authVars, inputVars, importVars, other, now, tz, current_user, next_expense_id, repVars, runVars >>

\* The guard of ExpenseManager.update_expense and delete_expense, as user
\* `user`: no live row with the id, or somebody else's, or the user is not
\* an admin.
NotYourExpense(expense_id, user) ==
  \/ LiveExpenseById(expense_id) = {}
  \/ \E owner \in LiveExpenseById(expense_id) : owner.user_id # user.user_id
  \/ ~ user.is_admin

NoUserMsg == "Error: No user is currently logged in."
UpdateOwnMsg == "Error: You can only update your own expenses."
DeleteOwnMsg == "Error: You can only delete your own expenses."

\* ExpenseManager.update_expense, the branches that return an error: nobody
\* logged in, or the guard.
UpdateExpenseRefused ==
  /\ AtPrompt
  /\ \E expense_id \in ExpenseIds :
       /\ current_user # None => NotYourExpense(expense_id, current_user)
       /\ out' = ReplyTo("update_expense", "update_expense",
                         << IF current_user = None THEN NoUserMsg ELSE UpdateOwnMsg >>,
                         << expense_id >>)
  /\ UNCHANGED << concurrent, authVars, inputVars, importVars, other, now, tz, current_user, srcVars, repVars, runVars,
                  histVars >>

\* ExpenseManager.delete_expense, the branches that return an error.
DeleteExpenseRefused ==
  /\ AtPrompt
  /\ \E expense_id \in ExpenseIds :
       /\ current_user # None => NotYourExpense(expense_id, current_user)
       /\ out' = ReplyTo("delete_expense", "delete_expense",
                         << IF current_user = None THEN NoUserMsg ELSE DeleteOwnMsg >>,
                         << expense_id >>)
  /\ UNCHANGED << concurrent, authVars, inputVars, importVars, other, now, tz, current_user, srcVars, repVars, runVars,
                  histVars >>

\* ------------------------------------------- the admin-only commands
\* CommandHandler.command_map: the commands the handler main() builds can
\* dispatch.
command_map ==
  { "help", "login", "logout", "list_users", "add_user", "add_category",
    "list_categories", "add_payment_method", "list_payment_methods",
    "add_expense", "update_expense", "delete_expense", "list_expenses",
    "import_expenses", "export_csv" }

\* CommandHandler.admin_only_commands
admin_only_commands ==
  { "add_user", "add_category", "import_expenses", "export_csv", "list_users" }

AdminOnlyMsg == "This command is restricted to admin users."
IsAdminArityMsg == "is_admin() takes 1 positional argument but 2 were given"
NoUserIdColumnMsg == "table categories has no column named user_id"

\* The first printed line of a reply that refuses the command.
Refusals ==
  { UnexpectedErrorMsg, CommandErrorMsg, UnknownCommandMsg, ParserErrorMsg,
    LoginRequiredMsg }

\* CommandHandler.execute_command as user `user` (None: nobody): the handler
\* it ends up calling, or the exception it raises.  The admin test passes
\* current_user to ExpenseAuthIntegration.is_admin(self), which takes no
\* argument, so with somebody logged in the call itself raises TypeError.
execute_command(command, user) ==
  IF command \notin command_map THEN UnknownCommandMsg
  ELSE IF command \in admin_only_commands
       THEN IF user = None THEN AdminOnlyMsg ELSE IsAdminArityMsg
  ELSE command

\* SELECT username FROM users WHERE is_deleted = 0, in user_id order.
ListUsers ==
  [ i \in 1..Cardinality(users) |-> (CHOOSE u \in users : u.user_id = i).username ]

\* main(): 'help'.  Logged out, the short list; logged in, the one place
\* where the loop goes through execute_command.
Help ==
  /\ AtPrompt
  /\ out' = IF current_user = None
            THEN Reply("help", "none", << "Available commands:" >>)
            ELSE Reply("help", execute_command("help", current_user),
                       << "Available commands: " >>)
  /\ UNCHANGED << concurrent, authVars, inputVars, importVars, other, now, tz, current_user, srcVars, repVars, runVars,
                  histVars >>

\* main() -> command_map['list_users'] -> handle_list_users: no test of who
\* is asking.
HandleListUsers ==
  /\ AtPrompt
  /\ current_user # None
  /\ out' = Reply("list_users", "list_users", ListUsers)
  /\ UNCHANGED << concurrent, authVars, inputVars, importVars, other, now, tz, current_user, srcVars, repVars, runVars,
                  histVars >>

\* main() -> handle_export_csv: SELECT * FROM {table_name}, written to the
\* file; no test of who is asking.
HandleExportCsv ==
  /\ AtPrompt
  /\ current_user # None
  /\ \E table_name \in {"users", "expenses"} :
       out' = Reply("export_csv", "export_csv", << "Data exported to", table_name >>)
  /\ UNCHANGED << concurrent, authVars, inputVars, importVars, other, now, tz, current_user, srcVars, repVars, runVars,
                  histVars >>

\* main() -> handle_import_expenses: the message and nothing else.
HandleImportExpenses ==
  /\ AtPrompt
  /\ current_user # None
  /\ out' = Reply("import_expenses", "import_expenses", << "Expenses imported from" >>)
  /\ UNCHANGED << concurrent, authVars, inputVars, importVars, other, now, tz, current_user, srcVars, repVars, runVars,
                  histVars >>

\* main() -> handle_add_user: self.auth.is_admin(current_user) raises
\* TypeError for whoever is logged in; the loop prints it.
HandleAddUser ==
  /\ AtPrompt
  /\ current_user # None
  /\ out' = Reply("add_user", "add_user", << UnexpectedErrorMsg, IsAdminArityMsg >>)
  /\ UNCHANGED << concurrent, authVars, inputVars, importVars, other, now, tz, current_user, srcVars, repVars, runVars,
                  histVars >>

\* main() -> handle_add_category: INSERT INTO categories (category_name,
\* user_id); the table has no such column, the statement raises.
HandleAddCategory ==
  /\ AtPrompt
  /\ current_user # None
  /\ out' = Reply("add_category", "add_category", << UnexpectedErrorMsg, NoUserIdColumnMsg >>)
  /\ UNCHANGED << concurrent, authVars, inputVars, importVars, other, now, tz, current_user, srcVars, repVars, runVars,
                  histVars >>

\* ExpenseManager.list_expenses without filters: the expenses joined to
\* their category, payment method and user, WHERE e.is_deleted = 0, and for a
\* user who is not an admin AND e.user_id = ?.
ListExpensesQuery(user) ==
  UNION { JoinExpense(e) :
            e \in { x \in expenses :
                      /\ x.is_deleted = 0
                      /\ (~ user.is_admin => x.user_id = user.user_id) } }

\* The expense_id column of a fetched list.
ExpenseIdsOf(rows) == [ i \in DOMAIN rows |-> rows[i].expense_id ]

ListedMsg == "Expenses"

\* ExpenseManager.list_expenses.
ListExpenses ==
  /\ AtPrompt
  /\ out' = IF current_user = None
            THEN Reply("list_expenses", "list_expenses", << NoUserMsg >>)
            ELSE ReplyTo("list_expenses", "list_expenses", << ListedMsg >>,
                         ExpenseIdsOf(FetchAll(ListExpensesQuery(current_user))))
  /\ UNCHANGED << concurrent, authVars, inputVars, importVars, other, now, tz, current_user, srcVars, repVars, runVars,
                  histVars >>

\* main() -> handle_list_expenses: self.auth.is_admin(current_user) raises
\* TypeError before any query is made.
HandleListExpenses ==
  /\ AtPrompt
  /\ current_user # None
  /\ out' = Reply("list_expenses", "list_expenses", << UnexpectedErrorMsg, IsAdminArityMsg >>)
  /\ UNCHANGED << concurrent, authVars, inputVars, importVars, other, now, tz, current_user, srcVars, repVars, runVars,
                  histVars >>

\* --------------------------------------------------- UserAuthentication
nonAuthVars ==
  << concurrent, now, tz, current_user, srcVars, repVars, runVars, out, other, histVars,
     inputVars, importVars >>

\* UserAuthentication.register_user.  encode() raising leaves before the
\* database is opened; a username some row already has, deleted or not,
\* violates UNIQUE and None is returned.
RegisterUser ==
  /\ \E username \in Usernames, password \in Passwords, is_admin \in BOOLEAN, pad \in Pads :
       IF \/ TooLong(password)
          \/ \E r \in users_table : r.username = username
          \/ next_user_id > MaxUsers
       THEN UNCHANGED << users_table, next_user_id, last_set >>
       ELSE /\ users_table' = users_table \cup
                 { [ user_id |-> next_user_id, username |-> username,
                     password_hash |-> encode(password, pad), is_admin |-> is_admin,
                     is_deleted |-> 0 ] }
            /\ next_user_id' = next_user_id + 1
            /\ last_set' = [last_set EXCEPT ![username] = password]
  /\ UNCHANGED verified
  /\ UNCHANGED nonAuthVars

\* UserAuthentication.verify_user
VerifyUser ==
  /\ \E username \in Usernames, password \in Passwords :
       verified' = [ username |-> username, password |-> password,
                     data |-> verify_user(users_table, username, password) ]
  /\ UNCHANGED << users_table, next_user_id, last_set >>
  /\ UNCHANGED nonAuthVars

\* UserAuthentication.update_password: UPDATE users SET password_hash = ?
\* WHERE user_id = ? AND is_deleted = 0
UpdatePassword ==
  /\ \E user_id \in 1..MaxUsers, new_password \in Passwords, pad \in Pads :
       LET hit == { r \in users_table : r.user_id = user_id /\ r.is_deleted = 0 }
       IN IF TooLong(new_password) \/ hit = {}
          THEN UNCHANGED << users_table, last_set >>
          ELSE /\ users_table' =
                    (users_table \ hit) \cup
                    { [r EXCEPT !.password_hash = encode(new_password, pad)] : r \in hit }
               /\ last_set' = [ n \in Usernames |->
                                  IF \E r \in hit : r.username = n
                                  THEN new_password ELSE last_set[n] ]
  /\ UNCHANGED << next_user_id, verified >>
  /\ UNCHANGED nonAuthVars

\* UserAuthentication.delete_user: UPDATE users SET is_deleted = 1 WHERE
\* user_id = ?
DeleteUser ==
  /\ \E user_id \in 1..MaxUsers :
       users_table' = { IF r.user_id = user_id THEN [r EXCEPT !.is_deleted = 1] ELSE r :
                          r \in users_table }
  /\ UNCHANGED << next_user_id, last_set, verified >>
  /\ UNCHANGED nonAuthVars

\* main(): a parsed command of a logged-in user that command_map does not
\* hold is answered 'Unknown command: ...'.
UnknownCommand ==
  /\ AtPrompt
  /\ current_user # None
  /\ \E command \in DOMAIN commands, num_args \in InputArgs :
       /\ parse(command, num_args) = command
       /\ command \notin UngatedCommands
       /\ command \notin command_map
       /\ out' = Reply(command, "none", << UnknownCommandMsg, command >>)
  /\ UNCHANGED << concurrent, authVars, inputVars, importVars, other, now, tz, current_user,
                  srcVars, repVars, runVars, histVars >>

\* ------------------------------------------------ ExpenseAuthIntegration
WelcomeBackMsg == "Welcome back"
InvalidLoginMsg == "Invalid username or password"
GoodbyeMsg == "Goodbye"
NobodyLoggedInMsg == "No user is currently logged in"

\* Faulty variant: a failed login logs the current user out.
LoginCall_Forgets ==
  /\ AtPrompt
  /\ \E username \in Usernames, password \in Passwords :
       LET user_data == verify_user(users_table, username, password)
       IN IF user_data # None
          THEN /\ current_user' = user_data
               /\ out' = Reply("login", "none", << WelcomeBackMsg, username >>)
          ELSE /\ current_user' = None
               /\ out' = Reply("login", "none", << InvalidLoginMsg >>)
  /\ UNCHANGED << concurrent, authVars, inputVars, importVars, other, now, tz, srcVars, repVars,
                  runVars, histVars >>

\* main() -> ExpenseAuthIntegration.login(username, password), whoever is
\* logged in at the time.
LoginCall ==
  /\ AtPrompt
  /\ \E username \in Usernames, password \in Passwords :
       LET user_data == verify_user(users_table, username, password)
       IN IF user_data # None
          THEN /\ current_user' = user_data
               /\ out' = Reply("login", "none", << WelcomeBackMsg, username >>)
          ELSE /\ current_user' = current_user
               /\ out' = Reply("login", "none", << InvalidLoginMsg >>)
  /\ UNCHANGED << concurrent, authVars, inputVars, importVars, other, now, tz, srcVars, repVars,
                  runVars, histVars >>

\* main() -> ExpenseAuthIntegration.logout()
LogoutCall ==
  /\ AtPrompt
  /\ current_user' = None
  /\ out' = IF current_user # None
            THEN Reply("logout", "none", << GoodbyeMsg, current_user.username >>)
            ELSE Reply("logout", "none", << NobodyLoggedInMsg >>)
  /\ UNCHANGED << concurrent, authVars, inputVars, importVars, other, now, tz, srcVars, repVars,
                  runVars, histVars >>

\* --------------------------------------------------- ExpenseCSVImporter
\* The database the importer is pointed at: the queries of the application
\* name categories.user_id, the DDL of init_db() does not create it; both
\* kinds of table are taken into account.
InitImport ==
  /\ InstalledStores
  /\ concurrent = FALSE
  /\ user_input = << >>
  /\ parsed = NotParsed
  /\ categories_user_id \in BOOLEAN
  /\ imp = NoImport

notImportVars ==
  << concurrent, now, tz, current_user, repVars, runVars, out, other, authVars, inputVars,
     categories_user_id >>

\* import_expenses_csv(csv_file) for user current_user_id, up to the
\* connection being opened: 'Validation failed' ends it with False.
ImportStart ==
  /\ imp.pc = "idle"
  /\ \E u \in users, header \in Headers, rows \in CsvFiles :
       imp' = [imp EXCEPT !.user = u.user_id, !.header = header, !.rows = rows,
                          !.pc = IF validate_csv_structure(header, rows)
                                 THEN "rows" ELSE "done"]
  /\ UNCHANGED << srcVars, histVars >>
  /\ UNCHANGED notImportVars

\* The body of the loop for one row that is not empty: category, payment
\* method, float(amount), INSERT INTO expenses; whichever raises, the row
\* is counted as failed and what the transaction holds so far stays in it.
import_row(txn, has_user_id, row) ==
  LET c == get_category_id(txn, has_user_id, row.category_name)
      m == get_payment_method_id(c.tx, row.payment_method_name)
  IN IF c.id = 0 THEN Raised(txn)
     ELSE IF ~ IsNumber(row.amount) THEN Raised(m.tx)
     ELSE IF row.tag = NoValue THEN Raised(m.tx)
     ELSE [m.tx EXCEPT
             !.pending = @ \cup
               { NewExpense(next_expense_id + Cardinality(txn.pending), txn.user, c.id, m.id,
                            float(row.amount), CurrentTimestamp, "", row.tag) },
             !.rows_inserted = @ + 1]

\* One turn of 'for row in reader'.  The reader raising is outside the
\* try of the loop body: it ends the import by the outer except, which
\* rolls the transaction back and returns False.
ImportRow ==
  /\ imp.pc = "rows"
  /\ imp.idx <= Len(imp.rows)
  /\ LET row == imp.rows[imp.idx]
     IN imp' = IF ~ row.readable
               THEN [imp EXCEPT !.pc = "done", !.result = FALSE, !.pending = {},
                                !.cats = CategoryRows, !.pms = payment_methods]
               ELSE IF IsEmptyRow(row) THEN [imp EXCEPT !.idx = @ + 1]
               ELSE [import_row(imp, categories_user_id, row) EXCEPT !.idx = @ + 1]
  /\ UNCHANGED << srcVars, histVars >>
  /\ UNCHANGED notImportVars

\* After the last row: conn.commit(), return rows_inserted > 0.
ImportCommit ==
  /\ imp.pc = "rows"
  /\ imp.idx > Len(imp.rows)
  /\ expenses' = expenses \cup imp.pending
  /\ next_expense_id' = next_expense_id + Cardinality(imp.pending)
  /\ imp' = [imp EXCEPT !.pc = "done", !.pending = {}, !.result = (imp.rows_inserted > 0)]
  /\ IF imp.pending # {} THEN SourceWritten ELSE UNCHANGED histVars
  /\ UNCHANGED notImportVars

\* ------------------------------------------------- update_reporting_db()
InRun == {"Timed", "Upserting", "Deleted", "Marked"}

NoRun ==
  /\ last_sync_time' = EpochTime
  /\ current_time' = EpochTime
  /\ updated_expenses' = << >>
  /\ idx' = 1
  /\ tx' = NoTx
  /\ pre' = NoTx
  /\ succ' = "none"

\* Faulty variant: the watermark is written, and committed, as soon as the
\* clock has been read.
StartSync_MarkFirst ==
  /\ pc = "Idle"
  /\ pc' = "Timed"
  /\ current_user' = None
  /\ last_sync_time' = sync_metadata
  /\ current_time' = LocalNow
  /\ sync_metadata' = LocalNow
  /\ tx' = [rows |-> denormalized_expenses, wm |-> LocalNow]
  /\ pre' = [rows |-> denormalized_expenses, wm |-> sync_metadata]
  /\ succ' = clean
  /\ clean' = "running"
  /\ out' = Reply("exit", "none", << ExitMsg >>)
  /\ UNCHANGED << concurrent, authVars, inputVars, importVars, other, now, tz, srcVars, denormalized_expenses,
                  updated_expenses, idx >>

\* main() on 'exit' or 'quit': the command loop, and the session with it, is
\* over and update_reporting_db() is entered. It connects to both databases,
\* reads the watermark (SELECT last_sync_time FROM sync_metadata WHERE id = 1)
\* and takes current_time = datetime.datetime.now().strftime(...).
StartSync ==
  /\ pc = "Idle"
  /\ pc' = "Timed"
  /\ current_user' = None
  /\ last_sync_time' = sync_metadata
  /\ current_time' = LocalNow
  /\ tx' = [rows |-> denormalized_expenses, wm |-> sync_metadata]
  /\ pre' = [rows |-> denormalized_expenses, wm |-> sync_metadata]
  /\ succ' = clean
  /\ clean' = "running"
  /\ out' = Reply("exit", "none", << ExitMsg >>)
  /\ UNCHANGED << concurrent, authVars, inputVars, importVars, other, now, tz, srcVars, repVars, updated_expenses, idx >>

\* The changed-set query and fetchall().
QueryChanged ==
  /\ pc = "Timed"
  /\ pc' = "Upserting"
  /\ updated_expenses' = FetchAll(ChangedSet(last_sync_time))
  /\ idx' = 1
  /\ UNCHANGED << concurrent, authVars, inputVars, importVars, other, out, now, tz, current_user, srcVars, repVars, last_sync_time,
                  current_time, tx, histVars >>

\* One iteration of `for expense in updated_expenses`.
ApplyUpsert ==
  /\ pc = "Upserting"
  /\ idx <= Len(updated_expenses)
  /\ tx' = [tx EXCEPT !.rows = Upsert(@, updated_expenses[idx])]
  /\ idx' = idx + 1
  /\ UNCHANGED << concurrent, authVars, inputVars, importVars, other, out, now, tz, current_user, srcVars, repVars, pc, last_sync_time,
                  current_time, updated_expenses, histVars >>

\* Faulty variant: the run also purges the soft-deleted rows it has propagated
\* from the source table.
ApplyDeletes_Purge ==
  /\ pc = "Upserting"
  /\ idx > Len(updated_expenses)
  /\ pc' = "Deleted"
  /\ LET deleted_expense_ids ==
           DeletedIdsSince(DeletedSetBound(last_sync_time, current_time))
     IN /\ tx' = [tx EXCEPT !.rows = IF deleted_expense_ids # {}
                                       THEN DeleteRows(@, deleted_expense_ids) ELSE @]
        /\ expenses' = { e \in expenses : e.expense_id \notin deleted_expense_ids }
  /\ UNCHANGED << concurrent, authVars, inputVars, importVars, other, out, now, tz, current_user, next_expense_id, repVars,
                  last_sync_time, current_time, updated_expenses, idx, histVars >>

\* After the loop: the deleted-set query, and
\* if deleted_expense_ids: DELETE ... WHERE expense_id IN (...)
ApplyDeletes ==
  /\ pc = "Upserting"
  /\ idx > Len(updated_expenses)
  /\ pc' = "Deleted"
  /\ LET deleted_expense_ids ==
           DeletedIdsSince(DeletedSetBound(last_sync_time, current_time))
     IN tx' = [tx EXCEPT !.rows = IF deleted_expense_ids # {}
                                    THEN DeleteRows(@, deleted_expense_ids) ELSE @]
  /\ UNCHANGED << concurrent, authVars, inputVars, importVars, other, out, now, tz, current_user, srcVars, repVars, last_sync_time,
                  current_time, updated_expenses, idx, histVars >>

\* Faulty variant: the watermark is taken from the rows just processed,
\* max(updated_at), with the epoch as the default of an empty list.
RECURSIVE MaxUpdatedAt(_, _)
MaxUpdatedAt(list, default) ==
  IF list = << >> THEN default
  ELSE LET rest == MaxUpdatedAt(Tail(list), default)
       IN IF Head(list).updated_at > rest THEN Head(list).updated_at ELSE rest

SetWatermark_FromRows ==
  /\ pc = "Deleted"
  /\ pc' = "Marked"
  /\ tx' = [tx EXCEPT !.wm = MaxUpdatedAt(updated_expenses, EpochTime)]
  /\ UNCHANGED << concurrent, authVars, inputVars, importVars, other, out, now, tz, current_user, srcVars, repVars, last_sync_time,
                  current_time, updated_expenses, idx, histVars >>

\* Faulty variant: the clock is read again when the watermark is written.
SetWatermark_ClockAtWrite ==
  /\ pc = "Deleted"
  /\ pc' = "Marked"
  /\ tx' = [tx EXCEPT !.wm = LocalNow]
  /\ UNCHANGED << concurrent, authVars, inputVars, importVars, other, out, now, tz, current_user, srcVars, repVars,
                  last_sync_time, current_time, updated_expenses, idx, histVars >>

\* Faulty variant: the watermark only ever moves forward,
\* SET last_sync_time = MAX(last_sync_time, ?).
SetWatermark_Max ==
  /\ pc = "Deleted"
  /\ pc' = "Marked"
  /\ tx' = [tx EXCEPT !.wm = IF @ > current_time THEN @ ELSE current_time]
  /\ UNCHANGED << concurrent, authVars, inputVars, importVars, other, out, now, tz, current_user, srcVars, repVars,
                  last_sync_time, current_time, updated_expenses, idx, histVars >>

\* UPDATE sync_metadata SET last_sync_time = ? WHERE id = 1, (current_time,)
SetWatermark ==
  /\ pc = "Deleted"
  /\ pc' = "Marked"
  /\ tx' = [tx EXCEPT !.wm = current_time]
  /\ UNCHANGED << concurrent, authVars, inputVars, importVars, other, out, now, tz, current_user, srcVars, repVars, last_sync_time,
                  current_time, updated_expenses, idx, histVars >>

\* reporting_conn.commit(): the transaction's writes become the committed state.
Commit ==
  /\ pc = "Marked"
  /\ pc' = "Committed"
  /\ denormalized_expenses' = tx.rows
  /\ sync_metadata' = tx.wm
  /\ clean' = IF clean = "running" THEN "committed" ELSE "none"
  /\ UNCHANGED << concurrent, authVars, inputVars, importVars, other, out, now, tz, current_user, srcVars, last_sync_time, current_time,
                  updated_expenses, idx, tx, pre, succ >>

\* Close both connections, print the success line and return to main(),
\* which leaves its loop: the application terminates.
Finish ==
  /\ pc = "Committed"
  /\ pc' = "Stopped"
  /\ NoRun
  /\ out' = Reply("exit", "none", << ExitMsg, SyncDoneMsg >>)
  /\ UNCHANGED << concurrent, authVars, inputVars, importVars, other, now, tz, current_user, srcVars, repVars, clean >>

\* The changed-set query raises (sqlite3.OperationalError: the source file is
\* locked, unreadable or has no table expenses): the exception leaves
\* update_reporting_db() before any statement has written to the reporting
\* connection.
SourceUnreachable ==
  /\ pc = "Timed"
  /\ pc' = "Aborted"
  /\ clean' = IF clean = "running" THEN "aborted" ELSE "none"
  /\ UNCHANGED << concurrent, authVars, inputVars, importVars, other, out, now, tz, current_user, srcVars, repVars,
                  last_sync_time, current_time, updated_expenses, idx, tx, pre, succ >>

\* Faulty variant: the connection is in autocommit mode, so what was written
\* before the failure stays.
Crash_Autocommit ==
  /\ pc \in InRun
  /\ pc' = "Failed"
  /\ denormalized_expenses' = tx.rows
  /\ sync_metadata' = tx.wm
  /\ clean' = IF clean = "running" THEN "failed" ELSE "none"
  /\ UNCHANGED << concurrent, authVars, inputVars, importVars, other, out, now, tz, current_user, srcVars, last_sync_time, current_time,
                  updated_expenses, idx, tx, pre, succ >>

\* An exception or the death of the process before reporting_conn.commit():
\* the open transaction is rolled back, nothing of it is committed.
Crash ==
  /\ pc \in InRun
  /\ pc' = "Failed"
  /\ clean' = IF clean = "running" THEN "failed" ELSE "none"
  /\ UNCHANGED << concurrent, authVars, inputVars, importVars, other, out, now, tz, current_user, srcVars, repVars, last_sync_time,
                  current_time, updated_expenses, idx, tx, pre, succ >>

\* Faulty variant: the loop goes on after the failed run instead of ending.
Recover_KeepsRunning ==
  /\ pc \in {"Failed", "Aborted"}
  /\ pc' = "Idle"
  /\ NoRun
  /\ out' = Reply("exit", "none", << ExitMsg, SyncFailedMsg >>)
  /\ UNCHANGED << concurrent, authVars, inputVars, importVars, other, now, tz, current_user, srcVars, repVars, clean >>

\* main(): `except Exception as e` around update_reporting_db() prints the
\* failure line, then `break`: the application terminates. The failed run's
\* locals and connections are gone.
Recover ==
  /\ pc \in {"Failed", "Aborted"}
  /\ pc' = "Stopped"
  /\ NoRun
  /\ out' = Reply("exit", "none", << ExitMsg, SyncFailedMsg >>)
  /\ UNCHANGED << concurrent, authVars, inputVars, importVars, other, now, tz, current_user, srcVars, repVars, clean >>

\* init_reporting_db() on the rows of sync_metadata: the watermark row
\* (1, '1970-01-01 00:00:00') is inserted only into an empty table. The faulty
\* variant writes it whatever the table holds (INSERT OR REPLACE).
InitReportingDb_Replace(rows) ==
  { r \in rows : r.id # 1 } \cup { [id |-> 1, last_sync_time |-> EpochTime] }
InitReportingDb(rows) ==
  IF Cardinality(rows) = 0
    THEN rows \cup { [id |-> 1, last_sync_time |-> EpochTime] }
    ELSE rows

\* The table sync_metadata: its only column besides id is last_sync_time, and
\* CHECK (id = 1) on the PRIMARY KEY admits no row but the one the variable holds.
SyncMetadataRows == { [id |-> 1, last_sync_time |-> sync_metadata] }

\* SELECT last_sync_time FROM sync_metadata WHERE id = 1
LastSyncTime(rows) == (CHOOSE r \in rows : r.id = 1).last_sync_time

\* main() is started again: init_db() and init_reporting_db() find their
\* tables (CREATE TABLE IF NOT EXISTS), a new ExpenseAuthIntegration has nobody
\* logged in, the welcome lines are printed and the loop is entered.
AppStart ==
  /\ pc = "Stopped"
  /\ pc' = "Idle"
  /\ current_user' = None
  /\ sync_metadata' = LastSyncTime(InitReportingDb(SyncMetadataRows))
  /\ out' = Welcome
  /\ UNCHANGED << concurrent, authVars, inputVars, importVars, other, now, tz, srcVars, denormalized_expenses,
                  last_sync_time, current_time, updated_expenses, idx, tx, histVars >>

\* ------------------------------- update_reporting_db() of a second process
\* SQLite lets one connection at a time write a database file: the first
\* INSERT, UPDATE or DELETE of a run takes the write lock of reporting.db and
\* the commit (or the rollback of a failed run) gives it back. The run of this
\* process holds it once it has executed the first statement of its loop, a
\* DELETE, or the UPDATE of sync_metadata.
HoldsLock ==
  \/ pc = "Marked"
  \/ pc = "Upserting" /\ idx > 1
  \/ pc = "Deleted" /\ (updated_expenses # << >> \/ DeletedIdsSince(last_sync_time) # {})

\* The for loop over a whole fetched list.
RECURSIVE UpsertAll(_, _)
UpsertAll(rows, list) ==
  IF list = << >> THEN rows ELSE UpsertAll(Upsert(rows, Head(list)), Tail(list))

\* The second process enters update_reporting_db() while the run of the first
\* is in progress: it reads the watermark and takes its own current_time.
OtherStart ==
  /\ pc \in InRun
  /\ other.pc = "Idle"
  /\ other' = [other EXCEPT !.pc = "Timed",
                            !.last_sync_time = sync_metadata,
                            !.current_time = LocalNow]
  /\ UNCHANGED << concurrent, authVars, inputVars, importVars, now, tz, current_user, srcVars, repVars, runVars, out,
                  histVars >>

\* Its changed-set query and fetchall().
OtherQuery ==
  /\ other.pc = "Timed"
  /\ other' = [other EXCEPT !.pc = "Queried",
                            !.updated_expenses = FetchAll(ChangedSet(other.last_sync_time))]
  /\ UNCHANGED << concurrent, authVars, inputVars, importVars, now, tz, current_user, srcVars, repVars, runVars, out,
                  histVars >>

\* Its write transaction, from the first statement of the loop to the commit,
\* which SQLite runs only while no other connection holds the write lock: the
\* upserts, the deletes and the watermark are applied to the committed state
\* found. A run of the first process that has not written yet goes on from the
\* state this commit leaves.
OtherWrite ==
  /\ other.pc = "Queried"
  /\ ~ HoldsLock
  /\ pc # "Committed"
  /\ other' = [other EXCEPT !.pc = "Done"]
  /\ LET deleted_expense_ids == DeletedIdsSince(other.last_sync_time)
         upserted == UpsertAll(denormalized_expenses, other.updated_expenses)
         rows == IF deleted_expense_ids # {}
                   THEN DeleteRows(upserted, deleted_expense_ids) ELSE upserted
     IN /\ denormalized_expenses' = rows
        /\ sync_metadata' = other.current_time
        /\ tx' = IF pc \in InRun
                   THEN [rows |-> rows, wm |-> other.current_time] ELSE tx
  /\ UNCHANGED << concurrent, authVars, inputVars, importVars, now, tz, current_user, srcVars, pc, last_sync_time,
                  current_time, updated_expenses, idx, out, histVars >>

\* It closes its connections and terminates.
OtherFinish ==
  /\ other.pc = "Done"
  /\ other' = NoOther
  /\ UNCHANGED << concurrent, authVars, inputVars, importVars, now, tz, current_user, srcVars, repVars, runVars, out,
                  histVars >>

\* ------------------------------------------------------ specifications
Next ==
  \/ Tick
  \/ Login
  \/ Logout
  \/ AddExpense
  \/ UpdateExpense
  \/ HandleUpdateExpense
  \/ DeleteExpense
  \/ HandleDeleteExpense
  \/ StartSync
  \/ QueryChanged
  \/ ApplyUpsert
  \/ ApplyDeletes
  \/ SetWatermark
  \/ Commit
  \/ Finish
  \/ SourceUnreachable
  \/ Crash
  \/ Recover
  \/ AppStart

Spec == Init /\ [][Next]_vars

SpecConc == InitConc /\ [][Next]_vars

\* The user also types lines the loop refuses: malformed ones, and commands
\* before logging in.
NextSession ==
  \/ Next
  \/ Rejected
  \/ LoginRequired

SpecSession == Init /\ [][NextSession]_vars

\* The prompt alone: every command the user can type, and no shutdown.
NextCommands ==
  \/ Tick
  \/ Login
  \/ Logout
  \/ Rejected
  \/ LoginRequired
  \/ Help
  \/ AddExpense
  \/ UpdateExpense
  \/ HandleUpdateExpense
  \/ DeleteExpense
  \/ HandleDeleteExpense
  \/ UpdateExpenseRefused
  \/ DeleteExpenseRefused
  \/ ListExpenses
  \/ HandleListExpenses
  \/ HandleListUsers
  \/ HandleExportCsv
  \/ HandleImportExpenses
  \/ HandleAddUser
  \/ HandleAddCategory
  \/ UnknownCommand

SpecCommands == Init /\ [][NextCommands]_vars

\* The accounts: UserAuthentication called in any order.
NextAuth ==
  \/ RegisterUser
  \/ VerifyUser
  \/ UpdatePassword
  \/ DeleteUser

\* One import of one CSV file.
NextImport ==
  \/ Tick
  \/ ImportStart
  \/ ImportRow
  \/ ImportCommit

SpecImport == InitImport /\ [][NextImport]_vars

SpecAuth == Init /\ [][NextAuth]_vars

\* Logging in and out while the accounts change.
NextLogin ==
  \/ LoginCall
  \/ LogoutCall
  \/ RegisterUser
  \/ UpdatePassword
  \/ DeleteUser

SpecLogin == Init /\ [][NextLogin]_vars

\* One line at the prompt, parsed; before or after, users log in and out.
NextParser ==
  \/ ParseLine
  \/ Login
  \/ Logout

SpecParser == InitParser /\ [][NextParser]_vars

\* Two processes shut down at overlapping times.
NextOverlap ==
  \/ Next
  \/ OtherStart
  \/ OtherQuery
  \/ OtherWrite
  \/ OtherFinish

SpecOverlap == Init /\ [][NextOverlap]_vars

\* ============================================================ properties
RowsOf(rows, id) == { r \in rows : r.expense_id = id }

\* What one uninterrupted run makes of the reporting rows `rows` with the
\* watermark `since`, stated without the steps: the rows it neither rewrites nor
\* deletes, and the changed rows it does not delete.
RunResult(rows, since) ==
  LET changed == ChangedSet(since)
      deleted == DeletedIdsSince(since)
      rewritten == { c.expense_id : c \in changed }
  IN { r \in rows : r.expense_id \notin rewritten \cup deleted }
       \cup { c \in changed : c.expense_id \notin deleted }

\* C1 (as claimed). Completeness: after a committed run that started with
\* watermark W, every source expense with is_deleted = 0 and updated_at > W has
\* exactly one reporting row with its id, carrying the expense's values and
\* the names of its user, category and payment method.
Completeness ==
  pc = "Committed" =>
    \A e \in expenses :
      (e.is_deleted = 0 /\ e.updated_at > last_sync_time) =>
        \E r \in denormalized_expenses :
          /\ RowsOf(denormalized_expenses, e.expense_id) = {r}
          /\ r \in JoinExpense(e)

\* C2 (as claimed). Delete propagation: an expense that had a reporting row
\* when the delete-expense command was applied to it has no reporting row
\* after the next committed run.
DeletePropagation ==
  pc = "Committed" =>
    \A id \in ExpenseIds :
      ( /\ id < next_expense_id
        /\ LiveExpenseById(id) = {}
        /\ RowsOf(pre.rows, id) # {} )
      => RowsOf(denormalized_expenses, id) = {}

\* C3 (as claimed). Update propagation without duplication: an expense that had
\* a reporting row when the update-expense command changed its amount has,
\* after the next committed run, exactly one reporting row, with the new amount.
UpdatePropagation ==
  pc = "Committed" =>
    \A e \in expenses : \A old \in RowsOf(pre.rows, e.expense_id) :
      (e.is_deleted = 0 /\ old.amount # e.amount) =>
        /\ Cardinality(RowsOf(denormalized_expenses, e.expense_id)) = 1
        /\ \A r \in RowsOf(denormalized_expenses, e.expense_id) : r.amount = e.amount

\* C4. Delete wins over update: an expense that is soft-deleted with updated_at
\* greater than the watermark the run started with has no reporting row after
\* the run commits, whether or not it had one before.
DeleteWins ==
  pc = "Committed" =>
    \A e \in expenses :
      (e.is_deleted = 1 /\ e.updated_at > last_sync_time) =>
        RowsOf(denormalized_expenses, e.expense_id) = {}

\* A run commits with an expense in its window that had a reporting row, was
\* given another amount after that row was written, and is soft-deleted.
DeleteWinsWitness ==
  /\ pc = "Committed"
  /\ \E e \in expenses : \E old \in RowsOf(pre.rows, e.expense_id) :
       /\ e.is_deleted = 1
       /\ e.updated_at > last_sync_time
       /\ old.amount # e.amount
       /\ RowsOf(denormalized_expenses, e.expense_id) = {}

\* C5 (as claimed). Target-row invariant: after a committed run, an id has a
\* reporting row if and only if its source expense exists, is not soft-deleted
\* and has updated_at no greater than the committed watermark.
TargetRowInvariant ==
  pc = "Committed" =>
    \A id \in ExpenseIds :
      (RowsOf(denormalized_expenses, id) # {})
        <=> (\E e \in LiveExpenseById(id) : e.updated_at <= sync_metadata)

\* C6 (as claimed). Watermark guarantee under interleaved writes: after every
\* committed run, every source expense with updated_at at or below the committed
\* watermark is reflected: a matching row if it is live, no row if it is
\* soft-deleted.
WatermarkGuarantee ==
  pc = "Committed" =>
    \A e \in expenses :
      e.updated_at <= sync_metadata =>
        IF e.is_deleted = 0
          THEN \E r \in JoinExpense(e) : RowsOf(denormalized_expenses, e.expense_id) = {r}
          ELSE RowsOf(denormalized_expenses, e.expense_id) = {}

\* C7. Watermark monotonicity: the watermark a run commits is at least the
\* watermark committed before it, and at least the initial one.
WatermarkMonotone ==
  pc = "Committed" => (sync_metadata >= pre.wm /\ sync_metadata >= EpochTime)

\* A run commits a watermark above the one an earlier run committed.
WatermarkMonotoneWitness ==
  /\ pc = "Committed"
  /\ pre.wm > EpochTime
  /\ sync_metadata > pre.wm

\* C8. Idempotence of content: a run that follows a committed run with no source
\* change in between leaves the reporting rows as that run left them.
IdempotentContent ==
  (pc = "Committed" /\ succ = "committed") => denormalized_expenses = pre.rows

\* The second of two such runs commits after applying a changed set again.
IdempotentContentWitness ==
  /\ pc = "Committed"
  /\ succ = "committed"
  /\ updated_expenses # << >>
  /\ denormalized_expenses # {}

\* C9 (as claimed). Idempotence of the watermark: the second of two such runs
\* leaves last_sync_time as the first left it.
IdempotentWatermark ==
  (pc = "Committed" /\ succ = "committed") => sync_metadata = pre.wm

\* C9 (amended). The second of two such runs leaves last_sync_time at the clock
\* reading it took when it started, which is at least the value the first left.
SuccessiveWatermark ==
  (pc = "Committed" /\ succ = "committed") =>
    (sync_metadata = current_time /\ sync_metadata >= pre.wm)

\* The second of two such runs commits a later watermark than the first.
SuccessiveWatermarkWitness ==
  /\ pc = "Committed"
  /\ succ = "committed"
  /\ denormalized_expenses # {}
  /\ sync_metadata > pre.wm

\* C10. Retry convergence: a run that ends before its commit leaves the
\* committed watermark and rows as they were when it started, and the next
\* committed run against the same source leaves the rows one uninterrupted
\* run would have produced.
RetryConvergence ==
  /\ pc = "Failed" =>
       (sync_metadata = pre.wm /\ denormalized_expenses = pre.rows)
  /\ (pc = "Committed" /\ succ = "failed") =>
       denormalized_expenses = RunResult(pre.rows, pre.wm)

\* A run commits rows after the run before it failed on the same source.
RetryConvergenceWitness ==
  /\ pc = "Committed"
  /\ succ = "failed"
  /\ updated_expenses # << >>
  /\ denormalized_expenses # pre.rows

\* C11. Source-unreachable abort: a run whose changed-set query raises has
\* written nothing (the committed watermark and rows, and the reporting
\* connection's transaction, are as at its start), the shutdown reports the
\* failure, and the next run on the same source commits what one uninterrupted
\* run commits.
SourceUnreachableAbort ==
  /\ pc = "Aborted" =>
       (sync_metadata = pre.wm /\ denormalized_expenses = pre.rows /\ tx = pre)
  /\ (pc = "Stopped" /\ clean = "aborted") =>
       out = Reply("exit", "none", << ExitMsg, SyncFailedMsg >>)
  /\ (pc = "Committed" /\ succ = "aborted") =>
       (denormalized_expenses = RunResult(pre.rows, pre.wm) /\ sync_metadata = current_time)

\* A run commits new rows after the run before it was aborted by the source.
SourceUnreachableAbortWitness ==
  /\ pc = "Committed"
  /\ succ = "aborted"
  /\ updated_expenses # << >>
  /\ denormalized_expenses # pre.rows

\* C12. Atomic commit: the committed rows and the committed watermark change
\* only in the commit of a run, together, to everything that run wrote: all of
\* its upserts and deletes and its watermark.
AtomicCommit ==
  [][ (denormalized_expenses' # denormalized_expenses \/ sync_metadata' # sync_metadata) =>
        /\ pc = "Marked"
        /\ pc' = "Committed"
        /\ denormalized_expenses' = RunResult(pre.rows, pre.wm)
        /\ sync_metadata' = current_time ]_vars

\* A commit has changed rows and watermark at once.
AtomicCommitWitness ==
  /\ pc = "Committed"
  /\ denormalized_expenses # pre.rows
  /\ sync_metadata # pre.wm

\* C13 (as claimed). Referential failure is a hard failure: a run does not get
\* past its changed-set query while a changed, non-deleted expense references a
\* user, category or payment method that has no row.
HardReferentialFailure ==
  pc \in {"Upserting", "Deleted", "Marked", "Committed"} =>
    \A e \in expenses :
      (e.is_deleted = 0 /\ e.updated_at > last_sync_time) => JoinExpense(e) # {}

\* C14 (as claimed). Source timestamp invariant: whenever a row of expenses is
\* changed, its updated_at becomes the time of the change and is not less than
\* it was.
UpdatedAtRefreshed ==
  [][ \A e \in expenses : \A f \in expenses' :
        (f.expense_id = e.expense_id /\ f # e) =>
          (f.updated_at = CurrentTimestamp /\ f.updated_at >= e.updated_at) ]_vars

\* C15. Watermark value and timing: current_time is read when the run starts
\* and never again; the transaction's watermark is untouched until the step
\* after the deletes, which sets it to current_time; nothing is written between
\* that step and the commit, which makes current_time the committed watermark.
WatermarkTiming ==
  /\ [](pc \in {"Timed", "Upserting", "Deleted"} => tx.wm = pre.wm)
  /\ [](pc \in {"Marked", "Committed"} => tx.wm = current_time)
  /\ [](pc = "Committed" => sync_metadata = current_time)
  /\ [][ /\ (pc # "Timed" /\ pc' = "Timed") => current_time' = LocalNow
         /\ (pc \in InRun /\ pc' \in InRun \cup {"Committed"}) => current_time' = current_time
         /\ (pc' = "Marked" /\ pc # "Marked") => (pc = "Deleted" /\ tx'.rows = tx.rows)
         /\ pc = "Marked" => tx' = tx ]_vars

\* A run that had rows to write commits the reading of its start although the
\* clock has moved on since.
WatermarkTimingWitness ==
  /\ pc = "Committed"
  /\ updated_expenses # << >>
  /\ sync_metadata = current_time
  /\ current_time < LocalNow

\* C16. Overlapping runs race: when two overlapping runs have read the same
\* watermark and the one that took its clock reading first commits last, the
\* committed watermark is that earlier reading: below the watermark the other
\* run had committed, and below what the two runs leave one after the other.
OverlapRace ==
  ( /\ pc = "Committed"
    /\ other.pc = "Done"
    /\ other.last_sync_time = last_sync_time
    /\ other.current_time > current_time )
  => (sync_metadata = current_time /\ sync_metadata < other.current_time)

\* The interleaving: both runs read the same watermark, the second process
\* committed its later reading, then this run committed its earlier one.
OverlapRaceWitness ==
  /\ pc = "Committed"
  /\ other.pc = "Done"
  /\ other.last_sync_time = last_sync_time
  /\ other.current_time > current_time
  /\ sync_metadata = current_time

ShutdownTrigger ==
  [][ /\ (pc # "Timed" /\ pc' = "Timed") => (pc = "Idle" /\ out'.command = "exit")
      /\ (pc = "Committed" /\ pc' # pc) =>
           (pc' = "Stopped" /\ out' = Reply("exit", "none", << ExitMsg, SyncDoneMsg >>))
      /\ (pc \in {"Failed", "Aborted"} /\ pc' # pc) =>
           /\ pc' = "Stopped"
           /\ out' = Reply("exit", "none", << ExitMsg, SyncFailedMsg >>)
           /\ sync_metadata' = pre.wm
      /\ (pc = "Stopped" /\ pc' # pc) => (pc' = "Idle" /\ out' = Welcome) ]_vars

\* The application has terminated after a failed run that had an expense to
\* propagate; the watermark is still the initial one.
ShutdownTriggerWitness ==
  /\ pc = "Stopped"
  /\ out = Reply("exit", "none", << ExitMsg, SyncFailedMsg >>)
  /\ \E e \in expenses : e.is_deleted = 0
  /\ sync_metadata = EpochTime
  /\ denormalized_expenses = {}

\* An input line the login gate is about: typed while nobody is logged in, its
\* first token none of help, login, logout, exit, quit.
GatedInput ==
  /\ current_user = None
  /\ out' # out
  /\ out'.command \notin UngatedCommands \cup {""}

NonAdminAsks ==
  /\ current_user # None
  /\ ~ current_user.is_admin
  /\ out' # out
  /\ out'.command \in admin_only_commands

\* C21 (as claimed): whenever a logged-in non-admin issues add_user,
\* add_category, import_expenses, export_csv or list_users, the command is
\* refused and the source database is left unchanged.
AdminGate ==
  [][ NonAdminAsks => (out'.lines[1] \in Refusals /\ UNCHANGED srcVars) ]_vars

\* The live expense with this id belongs to `user`.
Owns(user, expense_id) ==
  \E e \in LiveExpenseById(expense_id) : e.user_id = user.user_id

\* C22 (as claimed): an update or delete changes a row only if that row was
\* live and belonged to the logged-in user, and it is refused only if the
\* expense named is not a live expense of the logged-in user.
ExpenseOwnership ==
  [][ /\ (expenses' # expenses /\ next_expense_id' = next_expense_id) =>
           \A e \in expenses \ expenses' :
             e.is_deleted = 0 /\ current_user # None /\ e.user_id = current_user.user_id
      /\ (/\ out' # out
          /\ out'.command \in {"update_expense", "delete_expense"}
          /\ out'.lines[1] \in {NoUserMsg, UpdateOwnMsg, DeleteOwnMsg}) =>
           ~ Owns(current_user, out'.args[1]) ]_vars

\* The expenses a list_expenses answer shows: none when it is an error.
Listed(reply) ==
  IF reply.lines[1] = ListedMsg THEN { reply.args[i] : i \in DOMAIN reply.args } ELSE {}

\* C23 (as claimed): list_expenses shows a non-admin only live expenses of
\* their own, shows an admin every live expense, and never a soft-deleted
\* one.
ListingVisibility ==
  [][ (out' # out /\ out'.command = "list_expenses" /\ current_user # None) =>
        /\ \A id \in Listed(out') : LiveExpenseById(id) # {}
        /\ ~ current_user.is_admin => \A id \in Listed(out') : Owns(current_user, id)
        /\ current_user.is_admin =>
             Listed(out') = { e.expense_id : e \in { x \in expenses : x.is_deleted = 0 } }
    ]_vars

\* The row of a user that is not soft-deleted.
LiveUser(table, username) ==
  { r \in table : r.username = username /\ r.is_deleted = 0 }

\* C24: verify_user(username, password) returns user data exactly when a
\* row with that username exists, is not soft-deleted, and password is the
\* one last stored for it by register_user or update_password, and the data
\* is that row's; a username keeps a single row, and a soft-deleted row
\* stays soft-deleted, so its user never authenticates again.
CredentialCheck ==
  [][ /\ verified' # verified =>
           /\ verified'.data # None <=>
                /\ LiveUser(users_table, verified'.username) # {}
                /\ verified'.password = last_set[verified'.username]
           /\ verified'.data # None =>
                \E r \in LiveUser(users_table, verified'.username) :
                  verified'.data =
                    [user_id |-> r.user_id, username |-> r.username, is_admin |-> r.is_admin]
      /\ \A r \in users_table, q \in users_table' :
           q.username = r.username => (q.user_id = r.user_id /\ q.is_deleted >= r.is_deleted)
    ]_vars

\* The old password is refused once update_password has stored a new one.
CredentialCheckWitness ==
  /\ verified.data = None
  /\ verified.password = "pw1"
  /\ last_set[verified.username] = "pw2"
  /\ LiveUser(users_table, verified.username) # {}

\* The tokens of a line; none when it cannot be split.
Tokens(input_str) == shlex_split(strip(input_str)).tokens

\* At least one token, the first one lower-cased a known command, and the
\* number of the others within that command's min and max.
Accepted(tokens) ==
  /\ Len(tokens) >= 1
  /\ lower(Text(tokens[1])) \in DOMAIN commands
  /\ LET c == commands[lower(Text(tokens[1]))]
         n == Len(tokens) - 1
     IN c.min <= n /\ (c.bounded => n <= c.max)

\* C25 (as claimed): Parser.parse returns (command, args) exactly for an
\* accepted line and raises ParserError for every other; the main loop then
\* reports the error and leaves the session and the stores unchanged.
ParserArity ==
  [][ parsed' # parsed =>
        /\ parsed'.raised = "" <=> Accepted(Tokens(user_input))
        /\ parsed'.raised = "" =>
             /\ parsed'.command = lower(Text(Tokens(user_input)[1]))
             /\ parsed'.args = Tail(Tokens(user_input))
        /\ parsed'.raised # "" =>
             /\ parsed'.raised = "ParserError"
             /\ out'.lines[1] = ParserErrorMsg
             /\ UNCHANGED << current_user, srcVars, repVars, authVars >>
    ]_vars

\* What verify_user returns for a row.
UserData(r) == [user_id |-> r.user_id, username |-> r.username, is_admin |-> r.is_admin]

\* C26: the current user is nobody or one user of the table; a login that
\* succeeds sets it to the live user of the name given, one that fails
\* leaves it as it was; logout with a user logged in clears it and says
\* goodbye, with nobody logged in it reports the failure and changes
\* nothing; and the current user changes from nobody to somebody by a
\* successful login only.
SessionMachine ==
  [][ /\ current_user' = None \/ \E r \in users_table' : current_user' = UserData(r)
      /\ (out' # out /\ out'.command = "login") =>
           \/ /\ out'.lines[1] = WelcomeBackMsg
              /\ \E r \in LiveUser(users_table, out'.lines[2]) : current_user' = UserData(r)
           \/ /\ out'.lines[1] = InvalidLoginMsg
              /\ current_user' = current_user
      /\ (out' # out /\ out'.command = "logout") =>
           /\ current_user' = None
           /\ out'.lines[1] = IF current_user # None THEN GoodbyeMsg ELSE NobodyLoggedInMsg
           /\ current_user # None => out'.lines[2] = current_user.username
      /\ (current_user = None /\ current_user' # None) =>
           out'.command = "login" /\ out'.lines[1] = WelcomeBackMsg
      /\ (current_user # None /\ current_user' # current_user) =>
           out'.lines[1] \in {WelcomeBackMsg, GoodbyeMsg}
    ]_vars

\* A login has just failed while somebody was logged in.
SessionMachineWitness ==
  /\ out.lines[1] = InvalidLoginMsg
  /\ current_user # None
  /\ LiveUser(users_table, current_user.username) = {}

\* The rows of a file the import passes over as empty.
EmptyRows(rows) == { i \in DOMAIN rows : rows[i].readable /\ IsEmptyRow(rows[i]) }

\* C27 (as claimed): the import adds no expense when validation fails;
\* otherwise every row is passed over as empty, inserted, or counted as
\* failed, the expenses added are the rows inserted, they reach the source
\* in one step at the end, and the result is True exactly when a row was
\* inserted.
ImportIsolation ==
  [][ /\ expenses' # expenses => (imp.pc = "rows" /\ imp'.pc = "done")
      /\ (imp.pc # "done" /\ imp'.pc = "done") =>
           IF ~ validate_csv_structure(imp'.header, imp'.rows)
           THEN expenses' = expenses /\ ~ imp'.result
           ELSE /\ imp'.rows_inserted + imp'.rows_failed
                     + Cardinality(EmptyRows(imp'.rows)) = Len(imp'.rows)
                /\ expenses \subseteq expenses'
                /\ Cardinality(expenses' \ expenses) = imp'.rows_inserted
                /\ \A e \in expenses' \ expenses : e.user_id = imp'.user
                /\ imp'.result <=> imp'.rows_inserted > 0
    ]_vars

\* C28 (as claimed): no command the parser accepts is answered with
\* 'Unknown command'.
DispatchConsistency ==
  \A command \in DOMAIN commands :
    ~ (out.command = command /\ out.lines[1] = UnknownCommandMsg)

\* C29 (as claimed): once a run has committed its watermark, every expense
\* inserted or changed in the source afterwards carries an updated_at
\* strictly greater than that watermark, whatever the offset between the
\* local clock and CURRENT_TIMESTAMP.
ClockAgreement ==
  [][ (pc = "Idle" /\ sync_metadata # EpochTime) =>
        \A e \in expenses' \ expenses : e.updated_at > sync_metadata ]_vars

====
